---------------------------- MODULE Spec2Model ----------------------------
(***************************************************************************)
(* A model of cosmos/dependency-guardian: the package dependency graph     *)
(* (pkg/analysis/pkg.go: Tree.Resolve, Tree.FindReverseDependencies), the  *)
(* impact analyzer (Analyzer.AnalyzeChangedPackages), the configuration    *)
(* predicates (Config.IsHighLevelPackage, ...) and the report renderer     *)
(* (AnalysisResult.String).                                                *)
(*                                                                         *)
(* Strings are TLA+ strings; the Go string functions the code calls are    *)
(* operators over them.  A Go map is a TLA+ function (or a set of keys),   *)
(* and every `range` over a map draws its iteration order afresh.          *)
(***************************************************************************)
EXTENDS Integers, Sequences, FiniteSets, TLC

(***************************************************************************)
(* Strings                                                                 *)
(***************************************************************************)

\* The characters of the paths and patterns of the model, in byte order.
Alphabet == "*-./_abcdefghijklmnopqrstuvwxyz"

Char(s, i) == SubSeq(s, i, i)

\* The rank of a one-character string in byte order.
Ord(c) == CHOOSE i \in 1..Len(Alphabet) : Char(Alphabet, i) = c

Min(a, b) == IF a <= b THEN a ELSE b

\* Go's < on strings: bytewise lexicographic order.
StrLess(a, b) ==
  \/ \E i \in 1..Min(Len(a), Len(b)) :
        /\ SubSeq(a, 1, i - 1) = SubSeq(b, 1, i - 1)
        /\ Ord(Char(a, i)) < Ord(Char(b, i))
  \/ Len(a) < Len(b) /\ SubSeq(b, 1, Len(a)) = a

\* strings.HasPrefix
HasPrefix(s, prefix) ==
  Len(prefix) <= Len(s) /\ SubSeq(s, 1, Len(prefix)) = prefix

\* strings.HasSuffix
HasSuffix(s, suffix) ==
  Len(suffix) <= Len(s) /\ SubSeq(s, Len(s) - Len(suffix) + 1, Len(s)) = suffix

\* strings.TrimPrefix
TrimPrefix(s, prefix) ==
  IF HasPrefix(s, prefix) THEN SubSeq(s, Len(prefix) + 1, Len(s)) ELSE s

\* The positions of the path separator in s.
Slashes(s) == {i \in 1..Len(s) : Char(s, i) = "/"}

Max(S) == CHOOSE m \in S : \A k \in S : k <= m

\* filepath.Dir on a clean relative path: all but the last element, "." when
\* the path has no separator, "/" when the only separator leads.
Dir(path) ==
  IF Slashes(path) = {} THEN "."
  ELSE IF Max(Slashes(path)) = 1 THEN "/"
  ELSE SubSeq(path, 1, Max(Slashes(path)) - 1)

\* filepath.Join of a clean directory and a clean relative path ("" joins to
\* the directory itself).
Join(dir, rel) == IF rel = "" THEN dir ELSE dir \o "/" \o rel

\* filepath.Rel(base, path) for a path at or below base.
Rel(base, path) == IF path = base THEN "." ELSE TrimPrefix(path, base \o "/")

\* The elements of a path: the substrings between its separators.
RECURSIVE Split(_)
Split(s) ==
  IF Slashes(s) = {} THEN <<s>>
  ELSE LET i == CHOOSE k \in Slashes(s) : \A j \in Slashes(s) : k <= j
       IN  <<SubSeq(s, 1, i - 1)>> \o Split(SubSeq(s, i + 1, Len(s)))

(***************************************************************************)
(* Pattern matcher: doublestar.Match, for patterns of literal characters,  *)
(* `*` (any run of characters within one path element) and `**` (as a      *)
(* whole element: any number of elements, none included).                  *)
(***************************************************************************)

\* One path element against one pattern element.
RECURSIVE MatchElem(_, _)
MatchElem(pat, name) ==
  IF pat = "" THEN name = ""
  ELSE IF Char(pat, 1) = "*"
       THEN \/ MatchElem(SubSeq(pat, 2, Len(pat)), name)
            \/ name # "" /\ MatchElem(pat, SubSeq(name, 2, Len(name)))
       ELSE /\ name # ""
            /\ Char(pat, 1) = Char(name, 1)
            /\ MatchElem(SubSeq(pat, 2, Len(pat)), SubSeq(name, 2, Len(name)))

RECURSIVE MatchElems(_, _)
MatchElems(pats, names) ==
  IF pats = <<>> THEN names = <<>>
  ELSE IF Head(pats) = "**"
       THEN \/ MatchElems(Tail(pats), names)
            \/ names # <<>> /\ MatchElems(pats, Tail(names))
       ELSE /\ names # <<>>
            /\ MatchElem(Head(pats), Head(names))
            /\ MatchElems(Tail(pats), Tail(names))

Match(pattern, name) == MatchElems(Split(pattern), Split(name))

(***************************************************************************)
(* Sorting                                                                 *)
(***************************************************************************)

\* s with x inserted before the first element that is not less than x.
RECURSIVE InsertString(_, _)
InsertString(x, s) ==
  IF s = <<>> THEN <<x>>
  ELSE IF StrLess(Head(s), x) THEN <<Head(s)>> \o InsertString(x, Tail(s))
       ELSE <<x>> \o s

\* sort.Strings
RECURSIVE SortStrings(_)
SortStrings(s) ==
  IF s = <<>> THEN <<>> ELSE InsertString(Head(s), SortStrings(Tail(s)))

\* The orders a `range` over a map with key set S may take: every
\* enumeration of S without repetition.
RECURSIVE MapOrders(_)
MapOrders(S) ==
  IF S = {} THEN {<<>>}
  ELSE UNION {{<<k>> \o rest : rest \in MapOrders(S \ {k})} : k \in S}

Range(s) == {s[i] : i \in 1..Len(s)}

(***************************************************************************)
(* The checkout and the inputs                                             *)
(***************************************************************************)

\* Analyzer.repoPath / Tree.RootDir: the root directory of the checkout.
repoPath == "/r"

\* Analyzer.rootPkgPath / Tree.RootPkgPath: the module path of go.mod.
rootPkgPath == "x/m"

\* The import path of the package in directory rel of the checkout.
Imp(rel) == rootPkgPath \o "/" \o rel

\* A file of the checkout: its name, the name of its package clause, its
\* import declarations in source order, and whether go/parser rejects it.
GoFile(name, pkg, imports) ==
  [name |-> name, pkg |-> pkg, imports |-> imports, bad |-> FALSE]

BadFile(name) == [name |-> name, pkg |-> "", imports |-> <<>>, bad |-> TRUE]

OtherFile(name) == [name |-> name, pkg |-> "", imports |-> <<>>, bad |-> FALSE]

Present(files) == [exists |-> TRUE, files |-> files]

Absent == [exists |-> FALSE, files |-> {}]

\* The contents directory c may have.  c is the first directory the walk
\* meets, so it is the one whose files import the others in every way.
ContentsC ==
  {Present({GoFile("a.go", "c", <<>>)}),
   Present({BadFile("a.go")}),
   Present({GoFile("a_test.go", "c", <<Imp("d")>>)}),
   Present({GoFile("a.go", "c", <<>>), GoFile("a_test.go", "c", <<Imp("d")>>)}),
   Present({GoFile("a.go", "c", <<Imp("d")>>), GoFile("b.go", "main", <<Imp("e")>>)}),
   Present({GoFile("a.go", "c", <<"fmt", Imp("d")>>)})}
  \cup {Present({GoFile("a.go", "c", <<x>>)}) :
          x \in {Imp("c"), Imp("d"), Imp("e"), rootPkgPath, Imp("zz"), "x/m-o/c",
                 "x/md", "fmt"}}
  \cup {Present({GoFile("a.go", "c", <<x>>), GoFile("b.go", "c", <<y>>)}) :
          x \in {Imp("d"), Imp("e")}, y \in {Imp("d"), Imp("e")}}
  \cup {Present({GoFile("a.go", "c", <<x, y>>)}) :
          x \in {Imp("d"), Imp("e")}, y \in {Imp("d"), Imp("e")}}

ContentsD ==
  {Absent,
   Present({OtherFile("readme.md")}),
   Present({BadFile("a.go")}),
   Present({GoFile("a.go", "d", <<>>)}),
   Present({GoFile("a.go", "d", <<>>), GoFile("a_test.go", "d", <<Imp("e")>>)})}
  \cup {Present({GoFile("a.go", "d", <<x>>)}) : x \in {Imp("c"), Imp("e"), rootPkgPath}}

ContentsE ==
  {Absent,
   Present({OtherFile("readme.md")}),
   Present({BadFile("a.go")}),
   Present({GoFile("a.go", "e", <<>>)}),
   Present({GoFile("a_test.go", "e", <<Imp("c")>>)})}
  \cup {Present({GoFile("a.go", "e", <<x>>)}) : x \in {Imp("c"), Imp("d")}}

\* The root directory always holds go.mod, and may hold package main.
ContentsRoot ==
  {Present({OtherFile("go.mod")}),
   Present({OtherFile("go.mod"), GoFile("main.go", "main", <<>>)}),
   Present({OtherFile("go.mod"), GoFile("main.go", "main", <<Imp("d")>>)})}

\* The checkout as a map from the directories that exist to their files.
MkTree(root, c, d, e) ==
  LET all == (repoPath :> root) @@ (Join(repoPath, "c") :> c)
               @@ (Join(repoPath, "d") :> d) @@ (Join(repoPath, "e") :> e)
  IN  [p \in {q \in DOMAIN all : all[q].exists} |-> all[p].files]

Trees ==
  {MkTree(root, c, d, e) :
     root \in ContentsRoot, c \in ContentsC, d \in ContentsD, e \in ContentsE}

\* config.Config: the pattern lists the analyzer reads.
Cfg(high, ignore, critical) ==
  [HighLevelPackages |-> high, IgnorePatterns |-> ignore, CriticalPackages |-> critical]

\* DefaultConfig, with the critical patterns given.
DefaultConfig(critical) == Cfg(<<"**">>, <<"*_test.go">>, critical)

(***************************************************************************)
(* Configuration predicates                                                *)
(***************************************************************************)

\* Whether some pattern of the list matches the path (the loop of each of
\* the three predicates; a matching error counts as no match).
AnyMatch(patterns, pkgPath) ==
  \E i \in 1..Len(patterns) : Match(patterns[i], pkgPath)

IsHighLevelPackage(c, pkgPath) ==
  IF Len(c.HighLevelPackages) = 0 THEN TRUE
  ELSE AnyMatch(c.HighLevelPackages, pkgPath)

IsCriticalPackage(c, pkgPath) == AnyMatch(c.CriticalPackages, pkgPath)

ShouldIgnorePackage(c, pkgPath) == AnyMatch(c.IgnorePatterns, pkgPath)

(***************************************************************************)
(* State                                                                   *)
(***************************************************************************)

VARIABLES
  fs,                \* the checkout: directory |-> its files
  cfg,               \* Analyzer.cfg
  changedFiles,      \* the argument of AnalyzeChangedPackages
  unreadable,        \* the directories whose entries cannot be read
  pc,                \* where the analyzer is
  Packages,          \* Tree.Packages: package path |-> Pkg
  called,            \* the package paths Resolve has been called on (a history)
  scanned,           \* the directories ParseDir has been called on, in order
  walkLeft,          \* the directories filepath.Walk has still to visit
  stack,             \* the activations of Tree.Resolve, the innermost last
  ret,               \* what the Resolve call that just returned returned
  sortedChangedPkgs, \* AnalyzeChangedPackages' local of that name
  todo,              \* the changed packages the second pass has still to do
  revDeps,           \* the last call of FindReverseDependencies and its result
  impacts,           \* AnalyzeChangedPackages' local of that name
  allAffectedPkgs,   \* AnalyzeChangedPackages' local of that name (its keys)
  result,            \* what AnalyzeChangedPackages returned
  report,            \* result.String(), once rendered
  history,           \* the results of the earlier runs on this checkout
  comments           \* the bodies of the pull request's comments, oldest first

vars ==
  <<fs, cfg, changedFiles, unreadable, pc, Packages, called, scanned, walkLeft, stack, ret,
    sortedChangedPkgs, todo, revDeps, impacts, allAffectedPkgs, result,
    report, history, comments>>

inputs == <<fs, cfg, changedFiles, unreadable>>

analysis == <<sortedChangedPkgs, todo, revDeps, impacts, allAffectedPkgs>>

output == <<result, report, history, comments>>

\* The deepest nesting of Resolve calls the model follows.
MaxDepth == 8

NoCall == [pkgName |-> "", deps |-> <<>>]

(***************************************************************************)
(* The filesystem as the code sees it                                      *)
(***************************************************************************)

\* os.Stat(path) does not report IsNotExist.
DirExists(path) == path \in DOMAIN fs

\* filepath.Glob(filepath.Join(path, "*.go")): the walk's test for a package
\* directory.
GlobGo(path) == {f \in fs[path] : MatchElem("*.go", f.name)}

\* parser.ParseDir(fset, path, nil, parser.ImportsOnly): the files it reads
\* are those named *.go; it fails when it cannot read the directory or when
\* one of the files does not parse.
ParseDirFiles(path) == {f \in fs[path] : HasSuffix(f.name, ".go")}

ParseDirFails(path) ==
  \/ path \in unreadable
  \/ \E f \in ParseDirFiles(path) : f.bad

\* The keys of the map ParseDir returns: the package names of the files.
ParsedPkgs(path) == {f.pkg : f \in ParseDirFiles(path)}

\* parsedPkg.Files of one package of that map.
ParsedFiles(path, name) == {f \in ParseDirFiles(path) : f.pkg = name}

\* The paths of S in lexical order.
RECURSIVE Lexical(_)
Lexical(S) ==
  IF S = {} THEN <<>>
  ELSE LET first == CHOOSE x \in S : \A y \in S \ {x} : StrLess(x, y)
       IN  <<first>> \o Lexical(S \ {first})

\* The order filepath.Walk visits the directories in: lexical, the root
\* first (the directories of the model are the root and its children).
WalkOrder == Lexical(DOMAIN fs)

(***************************************************************************)
(* Tree.Resolve                                                            *)
(***************************************************************************)

\* The filesystem path Resolve scans for a package path.
PkgDir(pkgName) ==
  Join(repoPath, TrimPrefix(TrimPrefix(pkgName, rootPkgPath), "/"))

\* The Pkg that Resolve registers before it scans.
NewPkg(pkgName) ==
  [Name |-> pkgName,
   Internal |-> HasPrefix(pkgName, rootPkgPath),
   Files |-> <<>>,
   Imports |-> <<>>,
   Dependencies |-> <<>>]

\* NewTree: the empty map.
NoPackages == [p \in {} |-> NewPkg(p)]

\* Tree.Packages with pkgName registered.
Register(pkgName) == Packages @@ (pkgName :> NewPkg(pkgName))

\* Whether Resolve takes an import path for one of this module.
IsInternalImport(importPath) == HasPrefix(importPath, rootPkgPath)

\* An activation of Resolve(pkgName) that has just been called.
Call(pkgName) ==
  [pkgName |-> pkgName, at |-> "enter", pkgsLeft |-> {}, filesLeft |-> {},
   imports |-> <<>>, importSet |-> {}, importPath |-> ""]

Top == stack[Len(stack)]

Pop == SubSeq(stack, 1, Len(stack) - 1)

SetTop(f) == [stack EXCEPT ![Len(stack)] = f]

InResolve == pc = "walk" /\ stack # <<>>

Entering == InResolve /\ Top.at = "enter"

\* ResolveAlready without the early return: a call for a package that is in
\* the map already registers and scans it again.
ResolveAlreadyRescans ==
  /\ Entering
  /\ Top.pkgName \in DOMAIN Packages
  /\ DirExists(PkgDir(Top.pkgName))
  /\ Packages' = [Packages EXCEPT ![Top.pkgName] = NewPkg(Top.pkgName)]
  /\ stack' = SetTop([Top EXCEPT !.at = "files",
                                 !.pkgsLeft = ParsedPkgs(PkgDir(Top.pkgName))])
  /\ called' = called \cup {Top.pkgName}
  /\ scanned' = Append(scanned, PkgDir(Top.pkgName))
  /\ UNCHANGED <<ret, pc, walkLeft, inputs, analysis, output>>

\* Line 43: the package is in the map already; return nil.
ResolveAlready ==
  /\ Entering
  /\ Top.pkgName \in DOMAIN Packages
  /\ stack' = Pop
  /\ ret' = "nil"
  /\ UNCHANGED <<Packages, pc, walkLeft, inputs, analysis, output>>
  /\ called' = called \cup {Top.pkgName}
  /\ UNCHANGED scanned

\* A variant of lines 48-65 that returns an error for a missing directory.
ResolveMissingDirFails ==
  /\ Entering
  /\ Top.pkgName \notin DOMAIN Packages
  /\ ~DirExists(PkgDir(Top.pkgName))
  /\ Packages' = Register(Top.pkgName)
  /\ stack' = Pop
  /\ ret' = "err"
  /\ UNCHANGED <<pc, walkLeft, inputs, analysis, output>>
  /\ called' = called \cup {Top.pkgName}
  /\ UNCHANGED scanned

\* Lines 48-65: register the package; its directory does not exist.
ResolveMissingDir ==
  /\ Entering
  /\ Top.pkgName \notin DOMAIN Packages
  /\ ~DirExists(PkgDir(Top.pkgName))
  /\ Packages' = Register(Top.pkgName)
  /\ stack' = Pop
  /\ ret' = "nil"
  /\ UNCHANGED <<pc, walkLeft, inputs, analysis, output>>
  /\ called' = called \cup {Top.pkgName}
  /\ UNCHANGED scanned

\* Lines 48-74: register the package; ParseDir fails.
ResolveParseError ==
  /\ Entering
  /\ Top.pkgName \notin DOMAIN Packages
  /\ DirExists(PkgDir(Top.pkgName))
  /\ ParseDirFails(PkgDir(Top.pkgName))
  /\ Packages' = Register(Top.pkgName)
  /\ stack' = Pop
  /\ ret' = "err"
  /\ UNCHANGED <<pc, walkLeft, inputs, analysis, output>>
  /\ called' = called \cup {Top.pkgName}
  /\ scanned' = Append(scanned, PkgDir(Top.pkgName))

\* A variant of lines 48-78 without the check of lines 76-78: a directory
\* without packages is resolved without error.
ResolveNoPackagesSucceeds ==
  /\ Entering
  /\ Top.pkgName \notin DOMAIN Packages
  /\ DirExists(PkgDir(Top.pkgName))
  /\ ~ParseDirFails(PkgDir(Top.pkgName))
  /\ ParsedPkgs(PkgDir(Top.pkgName)) = {}
  /\ Packages' = Register(Top.pkgName)
  /\ stack' = Pop
  /\ ret' = "nil"
  /\ UNCHANGED <<pc, walkLeft, inputs, analysis, output>>
  /\ called' = called \cup {Top.pkgName}
  /\ scanned' = Append(scanned, PkgDir(Top.pkgName))

\* Lines 48-78: register the package; ParseDir finds no package.
ResolveNoPackages ==
  /\ Entering
  /\ Top.pkgName \notin DOMAIN Packages
  /\ DirExists(PkgDir(Top.pkgName))
  /\ ~ParseDirFails(PkgDir(Top.pkgName))
  /\ ParsedPkgs(PkgDir(Top.pkgName)) = {}
  /\ Packages' = Register(Top.pkgName)
  /\ stack' = Pop
  /\ ret' = "err"
  /\ UNCHANGED <<pc, walkLeft, inputs, analysis, output>>
  /\ called' = called \cup {Top.pkgName}
  /\ scanned' = Append(scanned, PkgDir(Top.pkgName))

\* Lines 48-84: register the package and start on the parsed packages.
ResolveScan ==
  /\ Entering
  /\ Top.pkgName \notin DOMAIN Packages
  /\ DirExists(PkgDir(Top.pkgName))
  /\ ~ParseDirFails(PkgDir(Top.pkgName))
  /\ ParsedPkgs(PkgDir(Top.pkgName)) # {}
  /\ Packages' = Register(Top.pkgName)
  /\ stack' = SetTop([Top EXCEPT !.at = "files",
                                 !.pkgsLeft = ParsedPkgs(PkgDir(Top.pkgName))])
  /\ UNCHANGED <<ret, pc, walkLeft, inputs, analysis, output>>
  /\ called' = called \cup {Top.pkgName}
  /\ scanned' = Append(scanned, PkgDir(Top.pkgName))

\* The activation is between two files: the imports of the last file, if
\* any, are done.
BetweenFiles ==
  /\ InResolve
  /\ \/ Top.at = "files"
     \/ Top.at = "imports" /\ Top.imports = <<>>

\* The files the loops of lines 84-85 may take next, each with what is left
\* of the two maps after it: a file of the package being ranged over or,
\* when that one is done, a file of another parsed package.
NextFiles ==
  IF Top.filesLeft # {}
  THEN {[file |-> f, pkgsLeft |-> Top.pkgsLeft, filesLeft |-> Top.filesLeft \ {f}] :
          f \in Top.filesLeft}
  ELSE UNION {{[file |-> f, pkgsLeft |-> Top.pkgsLeft \ {p},
                filesLeft |-> ParsedFiles(PkgDir(Top.pkgName), p) \ {f}] :
                 f \in ParsedFiles(PkgDir(Top.pkgName), p)} : p \in Top.pkgsLeft}

\* The name ParseDir gives a file: its path.
Filename(pkgName, f) == Join(PkgDir(pkgName), f.name)

\* A variant of lines 87-89 that skips the test file's name but still
\* processes its imports.
SkipTestFileKeepsImports ==
  /\ BetweenFiles
  /\ \E n \in NextFiles :
       /\ HasSuffix(Filename(Top.pkgName, n.file), "_test.go")
       /\ stack' = SetTop([Top EXCEPT !.at = "imports", !.pkgsLeft = n.pkgsLeft,
                                      !.filesLeft = n.filesLeft,
                                      !.imports = n.file.imports])
  /\ UNCHANGED <<Packages, ret, pc, walkLeft, inputs, analysis, output>>
  /\ UNCHANGED <<called, scanned>>

\* Lines 87-89: the next file is a test file; skip it.
SkipTestFile ==
  /\ BetweenFiles
  /\ \E n \in NextFiles :
       /\ HasSuffix(Filename(Top.pkgName, n.file), "_test.go")
       /\ stack' = SetTop([Top EXCEPT !.at = "files", !.pkgsLeft = n.pkgsLeft,
                                      !.filesLeft = n.filesLeft])
  /\ UNCHANGED <<Packages, ret, pc, walkLeft, inputs, analysis, output>>
  /\ UNCHANGED <<called, scanned>>

\* Lines 92-95: add the next file to Files and start on its imports.
AddFile ==
  /\ BetweenFiles
  /\ \E n \in NextFiles :
       /\ ~HasSuffix(Filename(Top.pkgName, n.file), "_test.go")
       /\ Packages' = [Packages EXCEPT ![Top.pkgName].Files =
                         Append(@, Filename(Top.pkgName, n.file))]
       /\ stack' = SetTop([Top EXCEPT !.at = "imports", !.pkgsLeft = n.pkgsLeft,
                                      !.filesLeft = n.filesLeft,
                                      !.imports = n.file.imports])
  /\ UNCHANGED <<ret, pc, walkLeft, inputs, analysis, output>>
  /\ UNCHANGED <<called, scanned>>

\* Line 100, condition false: the import is external or seen already.
SkipImport ==
  /\ InResolve
  /\ Top.at = "imports"
  /\ Top.imports # <<>>
  /\ ~(IsInternalImport(Head(Top.imports)) /\ Head(Top.imports) \notin Top.importSet)
  /\ stack' = SetTop([Top EXCEPT !.imports = Tail(@)])
  /\ UNCHANGED <<Packages, ret, pc, walkLeft, inputs, analysis, output>>
  /\ UNCHANGED <<called, scanned>>

\* Lines 100-105: record the import and call Resolve on it.
ResolveImport ==
  /\ InResolve
  /\ Top.at = "imports"
  /\ Top.imports # <<>>
  /\ IsInternalImport(Head(Top.imports))
  /\ Head(Top.imports) \notin Top.importSet
  /\ Len(stack) < MaxDepth
  /\ Packages' = [Packages EXCEPT ![Top.pkgName].Imports = Append(@, Head(Top.imports))]
  /\ stack' = Append(SetTop([Top EXCEPT !.at = "call",
                                        !.imports = Tail(@),
                                        !.importSet = @ \cup {Head(Top.imports)},
                                        !.importPath = Head(Top.imports)]),
                     Call(Head(Top.imports)))
  /\ UNCHANGED <<ret, pc, walkLeft, inputs, analysis, output>>
  /\ UNCHANGED <<called, scanned>>

\* Lines 105-108: the call failed; warn and go on with the next import.
ImportFailed ==
  /\ InResolve
  /\ Top.at = "call"
  /\ ret = "err"
  /\ stack' = SetTop([Top EXCEPT !.at = "imports"])
  /\ ret' = "none"
  /\ UNCHANGED <<Packages, pc, walkLeft, inputs, analysis, output>>
  /\ UNCHANGED <<called, scanned>>

\* Lines 111-113: the call returned nil; append the package to Dependencies.
AddDependencyBothWays ==
  /\ InResolve
  /\ Top.at = "call"
  /\ ret = "nil"
  /\ Packages' = IF Top.importPath \in DOMAIN Packages
                 THEN [q \in DOMAIN Packages |->
                         IF q = Top.pkgName
                         THEN [Packages[q] EXCEPT !.Dependencies =
                                 Append(@, Top.importPath)]
                         ELSE IF q = Top.importPath
                         THEN [Packages[q] EXCEPT !.Dependencies =
                                 Append(@, Top.pkgName)]
                         ELSE Packages[q]]
                 ELSE Packages
  /\ stack' = SetTop([Top EXCEPT !.at = "imports"])
  /\ ret' = "none"
  /\ UNCHANGED <<pc, walkLeft, inputs, analysis, output>>
  /\ UNCHANGED <<called, scanned>>

AddDependency ==
  /\ InResolve
  /\ Top.at = "call"
  /\ ret = "nil"
  /\ Packages' = IF Top.importPath \in DOMAIN Packages
                 THEN [Packages EXCEPT ![Top.pkgName].Dependencies =
                         Append(@, Top.importPath)]
                 ELSE Packages
  /\ stack' = SetTop([Top EXCEPT !.at = "imports"])
  /\ ret' = "none"
  /\ UNCHANGED <<pc, walkLeft, inputs, analysis, output>>
  /\ UNCHANGED <<called, scanned>>

\* Line 121: every file of every parsed package is done; return nil.
ResolveReturn ==
  /\ BetweenFiles
  /\ NextFiles = {}
  /\ stack' = Pop
  /\ ret' = "nil"
  /\ UNCHANGED <<Packages, pc, walkLeft, inputs, analysis, output>>
  /\ UNCHANGED <<called, scanned>>

Resolve ==
  \/ ResolveAlready
  \/ ResolveMissingDir
  \/ ResolveParseError
  \/ ResolveNoPackages
  \/ ResolveScan
  \/ SkipTestFile
  \/ AddFile
  \/ SkipImport
  \/ ResolveImport
  \/ ImportFailed
  \/ AddDependency
  \/ ResolveReturn

(***************************************************************************)
(* Tree.FindReverseDependencies                                            *)
(***************************************************************************)

\* A variant of the inner loop that also follows the dependencies of the
\* dependencies.
DependsOnTransitively(pkg, pkgName) ==
  \E i \in 1..Len(pkg.Dependencies) :
    \/ pkg.Dependencies[i] = pkgName
    \/ \E j \in 1..Len(Packages[pkg.Dependencies[i]].Dependencies) :
         Packages[pkg.Dependencies[i]].Dependencies[j] = pkgName

\* The inner loop of lines 134-139: some dependency of pkg is named pkgName.
DependsOn(pkg, pkgName) ==
  \E i \in 1..Len(pkg.Dependencies) : pkg.Dependencies[i] = pkgName

\* The outer loop, over the packages in the order the range takes them:
\* the package itself is skipped, a package that depends on pkgName is
\* appended once.
RECURSIVE ReverseDependencies(_, _)
ReverseDependencies(pkgName, order) ==
  IF order = <<>> THEN <<>>
  ELSE LET pkg == Packages[Head(order)]
           rest == ReverseDependencies(pkgName, Tail(order))
       IN  IF pkg.Name = pkgName THEN rest
           ELSE IF DependsOn(pkg, pkgName) THEN <<pkg.Name>> \o rest
           ELSE rest

\* The values FindReverseDependencies(pkgName) may return, one for each
\* order of the range over Tree.Packages.
FindReverseDependencies(pkgName) ==
  {ReverseDependencies(pkgName, order) : order \in MapOrders(DOMAIN Packages)}

(***************************************************************************)
(* Analyzer.AnalyzeChangedPackages                                         *)
(***************************************************************************)

NilResult(imps, direct, indirect) ==
  [err |-> "nil", Impacts |-> imps, DirectDependencies |-> direct,
   IndirectDependencies |-> indirect]

ErrResult(e) ==
  [err |-> e, Impacts |-> <<>>, DirectDependencies |-> <<>>,
   IndirectDependencies |-> <<>>]

\* A variant of line 97 that lets test files through.
IsChangedSourceWithTests(file) == HasSuffix(file, ".go")

\* Line 97: the file counts as a changed source file.
IsChangedSource(file) == HasSuffix(file, ".go") /\ ~HasSuffix(file, "_test.go")

\* Lines 101-107: the package path of a changed file.
FullPkgPath(file) ==
  IF Dir(file) = "." THEN rootPkgPath ELSE rootPkgPath \o "/" \o Dir(file)

\* Lines 93-109: the keys of changedPkgs after the first pass.
ChangedPkgs(files) ==
  {FullPkgPath(files[i]) : i \in {j \in 1..Len(files) : IsChangedSource(files[j])}}

\* A variant of lines 124-141 that does not consult the ignore patterns.
RECURSIVE AffectedForPkgKeepsIgnored(_)
AffectedForPkgKeepsIgnored(deps) ==
  IF deps = <<>> THEN <<>>
  ELSE IF ~IsHighLevelPackage(cfg, Head(deps)) THEN AffectedForPkgKeepsIgnored(Tail(deps))
  ELSE <<[Name |-> Head(deps), IsCritical |-> IsCriticalPackage(cfg, Head(deps))]>>
         \o AffectedForPkgKeepsIgnored(Tail(deps))

\* A variant of lines 124-141 that marks no package critical.
RECURSIVE AffectedForPkgNeverCritical(_)
AffectedForPkgNeverCritical(deps) ==
  IF deps = <<>> THEN <<>>
  ELSE IF ShouldIgnorePackage(cfg, Head(deps)) THEN AffectedForPkgNeverCritical(Tail(deps))
  ELSE IF ~IsHighLevelPackage(cfg, Head(deps)) THEN AffectedForPkgNeverCritical(Tail(deps))
  ELSE <<[Name |-> Head(deps), IsCritical |-> FALSE]>>
         \o AffectedForPkgNeverCritical(Tail(deps))

\* Lines 124-141: the reverse dependencies that pass the filters, in order.
RECURSIVE AffectedForPkg(_)
AffectedForPkg(deps) ==
  IF deps = <<>> THEN <<>>
  ELSE IF ShouldIgnorePackage(cfg, Head(deps)) THEN AffectedForPkg(Tail(deps))
  ELSE IF ~IsHighLevelPackage(cfg, Head(deps)) THEN AffectedForPkg(Tail(deps))
  ELSE <<[Name |-> Head(deps), IsCritical |-> IsCriticalPackage(cfg, Head(deps))]>>
         \o AffectedForPkg(Tail(deps))

RECURSIVE InsertAffected(_, _)
InsertAffected(x, s) ==
  IF s = <<>> THEN <<x>>
  ELSE IF StrLess(Head(s).Name, x.Name) THEN <<Head(s)>> \o InsertAffected(x, Tail(s))
       ELSE <<x>> \o s

\* A variant of lines 143-145 that leaves the affected packages in the order
\* FindReverseDependencies returned them.
SortAffectedKeepsOrder(s) == s

\* Lines 143-145: sort.Slice by Name.
RECURSIVE SortAffected(_)
SortAffected(s) ==
  IF s = <<>> THEN <<>> ELSE InsertAffected(Head(s), SortAffected(Tail(s)))

Names(affected) == {affected[i].Name : i \in 1..Len(affected)}

\* Lines 154-161: the keys of directDeps.
DirectDeps(changed) ==
  UNION {Range(Packages[changed[i]].Dependencies) :
           i \in {j \in 1..Len(changed) : changed[j] \in DOMAIN Packages}}

\* A variant of lines 168-173 that keeps the direct dependencies.
IndirectOfAll(order, directDeps) == order

\* Lines 168-173: the affected packages, in the order of the range, that are
\* no key of directDeps.
RECURSIVE IndirectOf(_, _)
IndirectOf(order, directDeps) ==
  IF order = <<>> THEN <<>>
  ELSE IF Head(order) \notin directDeps
       THEN <<Head(order)>> \o IndirectOf(Tail(order), directDeps)
       ELSE IndirectOf(Tail(order), directDeps)

\* NewAnalyzer followed by SetRootPackage: the analyzer gets its tree.
SetRootPackage ==
  /\ pc = "new"
  /\ pc' = "ready"
  /\ Packages' = NoPackages
  /\ UNCHANGED <<walkLeft, stack, ret, inputs, analysis, output>>
  /\ called' = {}
  /\ scanned' = <<>>

\* Lines 56-58: AnalyzeChangedPackages on an analyzer without a tree.
NotInitialized ==
  /\ pc = "new"
  /\ result' = ErrResult("not initialized")
  /\ pc' = "failed"
  /\ UNCHANGED <<Packages, walkLeft, stack, ret, inputs, analysis, report, history, comments>>
  /\ UNCHANGED <<called, scanned>>

\* Line 61: AnalyzeChangedPackages starts the walk of the checkout.
BeginWalk ==
  /\ pc = "ready"
  /\ pc' = "walk"
  /\ walkLeft' = WalkOrder
  /\ UNCHANGED <<Packages, stack, ret, inputs, analysis, output>>
  /\ UNCHANGED <<called, scanned>>

Walking == pc = "walk" /\ stack = <<>> /\ ret = "none" /\ walkLeft # <<>>

\* Lines 62-64 and 88-90: filepath.Walk hands the callback the error of
\* reading the directory, the callback returns it, and
\* AnalyzeChangedPackages returns nil and the error.
WalkFail ==
  /\ Walking
  /\ Head(walkLeft) \in unreadable
  /\ result' = ErrResult("error walking repository")
  /\ pc' = "failed"
  /\ UNCHANGED <<Packages, walkLeft, stack, ret, inputs, analysis, report, history, comments>>
  /\ UNCHANGED <<called, scanned>>

\* Lines 65-77: a directory without *.go files, or the root directory.
WalkSkip ==
  /\ Walking
  /\ Head(walkLeft) \notin unreadable
  /\ \/ GlobGo(Head(walkLeft)) = {}
     \/ Rel(repoPath, Head(walkLeft)) = "."
  /\ walkLeft' = Tail(walkLeft)
  /\ UNCHANGED <<Packages, pc, stack, ret, inputs, analysis, output>>
  /\ UNCHANGED <<called, scanned>>

\* Lines 78-79: a package directory; call Resolve on its package path.
WalkResolve ==
  /\ Walking
  /\ Head(walkLeft) \notin unreadable
  /\ GlobGo(Head(walkLeft)) # {}
  /\ Rel(repoPath, Head(walkLeft)) # "."
  /\ stack' = <<Call(rootPkgPath \o "/" \o Rel(repoPath, Head(walkLeft)))>>
  /\ UNCHANGED <<Packages, pc, walkLeft, ret, inputs, analysis, output>>
  /\ UNCHANGED <<called, scanned>>

\* A variant of lines 79-85 in which an error of Resolve is returned from
\* the callback and so from AnalyzeChangedPackages.
WalkResolvedFatal ==
  /\ pc = "walk"
  /\ stack = <<>>
  /\ ret # "none"
  /\ ret' = "none"
  /\ IF ret = "err"
     THEN /\ pc' = "failed"
          /\ result' = ErrResult("error walking repository")
          /\ UNCHANGED walkLeft
     ELSE /\ walkLeft' = Tail(walkLeft)
          /\ UNCHANGED <<pc, result>>
  /\ UNCHANGED <<Packages, stack, inputs, analysis, report, history, comments>>
  /\ UNCHANGED <<called, scanned>>

\* A variant of lines 79-85 in which an error of Resolve ends the walk.
WalkResolvedStopsOnError ==
  /\ pc = "walk"
  /\ stack = <<>>
  /\ ret # "none"
  /\ ret' = "none"
  /\ walkLeft' = IF ret = "err" THEN <<>> ELSE Tail(walkLeft)
  /\ UNCHANGED <<Packages, pc, stack, inputs, analysis, output>>
  /\ UNCHANGED <<called, scanned>>

\* Lines 79-85: Resolve returned; an error is a warning, the walk goes on.
WalkResolved ==
  /\ pc = "walk"
  /\ stack = <<>>
  /\ ret # "none"
  /\ ret' = "none"
  /\ walkLeft' = Tail(walkLeft)
  /\ UNCHANGED <<Packages, pc, stack, inputs, analysis, output>>
  /\ UNCHANGED <<called, scanned>>

\* Lines 92-119: the walk is over; the changed packages, sorted.
IdentifyChanged ==
  /\ pc = "walk"
  /\ stack = <<>>
  /\ ret = "none"
  /\ walkLeft = <<>>
  /\ \E order \in MapOrders(ChangedPkgs(changedFiles)) :
       /\ sortedChangedPkgs' = SortStrings(order)
       /\ todo' = SortStrings(order)
  /\ pc' = "impacts"
  /\ UNCHANGED <<Packages, walkLeft, stack, ret, inputs, revDeps, impacts,
                 allAffectedPkgs, output>>
  /\ UNCHANGED <<called, scanned>>

\* A variant of lines 121-151 that makes no impact for a changed package
\* without affected packages.
ImpactOfNextSkipsUnaffected ==
  /\ pc = "impacts"
  /\ todo # <<>>
  /\ \E deps \in FindReverseDependencies(Head(todo)) :
       /\ revDeps' = [pkgName |-> Head(todo), deps |-> deps]
       /\ impacts' = IF AffectedForPkg(deps) = <<>> THEN impacts
                     ELSE Append(impacts,
                                 [ChangedPackage |-> Head(todo),
                                  AffectedPackages |-> SortAffected(AffectedForPkg(deps))])
       /\ allAffectedPkgs' = allAffectedPkgs \cup Names(AffectedForPkg(deps))
  /\ todo' = Tail(todo)
  /\ UNCHANGED <<Packages, pc, walkLeft, stack, ret, inputs, sortedChangedPkgs, output>>
  /\ UNCHANGED <<called, scanned>>

\* Lines 121-151: one round of the second pass.
ImpactOfNext ==
  /\ pc = "impacts"
  /\ todo # <<>>
  /\ \E deps \in FindReverseDependencies(Head(todo)) :
       /\ revDeps' = [pkgName |-> Head(todo), deps |-> deps]
       /\ impacts' = Append(impacts,
                            [ChangedPackage |-> Head(todo),
                             AffectedPackages |-> SortAffected(AffectedForPkg(deps))])
       /\ allAffectedPkgs' = allAffectedPkgs \cup Names(AffectedForPkg(deps))
  /\ todo' = Tail(todo)
  /\ UNCHANGED <<Packages, pc, walkLeft, stack, ret, inputs, sortedChangedPkgs, output>>
  /\ UNCHANGED <<called, scanned>>

\* Lines 153-185: the summary lists and the result.
Summarize ==
  /\ pc = "impacts"
  /\ todo = <<>>
  /\ \E directOrder \in MapOrders(DirectDeps(sortedChangedPkgs)),
        affectedOrder \in MapOrders(allAffectedPkgs) :
       result' = NilResult(impacts,
                           SortStrings(directOrder),
                           SortStrings(IndirectOf(affectedOrder,
                                                  DirectDeps(sortedChangedPkgs))))
  /\ pc' = "done"
  /\ UNCHANGED <<Packages, walkLeft, stack, ret, inputs, analysis, report, history, comments>>
  /\ UNCHANGED <<called, scanned>>

(***************************************************************************)
(* AnalysisResult.String: the strings it writes, in order, each without    *)
(* its trailing line breaks, without the emoji of the headings and without *)
(* the backquotes around package names.                                    *)
(***************************************************************************)

\* fmt's %d.
RECURSIVE Itoa(_)
Itoa(n) ==
  IF n < 10 THEN Char("0123456789", n + 1)
  ELSE Itoa(n \div 10) \o Char("0123456789", (n % 10) + 1)

Marker == "<!-- dependency-guardian -->"

\* Lines 205-211: one line for each affected package.
AffectedLines(affected) ==
  [i \in 1..Len(affected) |->
     IF affected[i].IsCritical
     THEN "- **" \o affected[i].Name \o "** (Critical)"
     ELSE "- " \o affected[i].Name]

\* Lines 201-215: the section of one impact.
ImpactSection(impact) ==
  <<"#### Changed Package: " \o impact.ChangedPackage>>
  \o (IF Len(impact.AffectedPackages) > 0
      THEN <<"<details><summary>Affected Packages ("
               \o Itoa(Len(impact.AffectedPackages)) \o ")</summary>">>
           \o AffectedLines(impact.AffectedPackages)
           \o <<"</details>">>
      ELSE <<"This change does not affect any other packages.">>)

RECURSIVE ImpactSections(_)
ImpactSections(imps) ==
  IF imps = <<>> THEN <<>>
  ELSE ImpactSection(Head(imps)) \o ImpactSections(Tail(imps))

\* Lines 221-230: the number of distinct affected package names.
TotalAffected(imps) ==
  Cardinality(UNION {Names(imps[i].AffectedPackages) : i \in 1..Len(imps)})

String(r) ==
  <<Marker, "## Dependency Impact Analysis">>
  \o (IF Len(r.Impacts) = 0
      THEN <<"No changed packages found.">>
      ELSE <<"### Changed Packages and Their Impacts">>
           \o ImpactSections(r.Impacts)
           \o <<"### Analysis Summary:",
                "- **Changed packages**: " \o Itoa(Len(r.Impacts)),
                "- **Affected packages**: " \o Itoa(TotalAffected(r.Impacts)),
                "- **Direct dependencies of changed packages**: "
                   \o Itoa(Len(r.DirectDependencies)),
                "- **Indirectly affected packages**: "
                   \o Itoa(Len(r.IndirectDependencies))>>)

\* runAnalyze, lines 185 and 204: the caller renders the result.
Render ==
  /\ pc = "done"
  /\ report' = String(result)
  /\ pc' = "reported"
  /\ UNCHANGED <<Packages, walkLeft, stack, ret, inputs, analysis, result, history, comments>>
  /\ UNCHANGED <<called, scanned>>

(***************************************************************************)
(* Specifications                                                          *)
(***************************************************************************)

\* The state before NewAnalyzer's analyzer is used, on the given inputs and
\* with the given directories unreadable.
StartOn(tree, config, files, bad) ==
  /\ fs = tree
  /\ cfg = config
  /\ changedFiles = files
  /\ unreadable = bad
  /\ pc = "new"
  /\ Packages = NoPackages
  /\ called = {}
  /\ scanned = <<>>
  /\ walkLeft = <<>>
  /\ stack = <<>>
  /\ ret = "none"
  /\ sortedChangedPkgs = <<>>
  /\ todo = <<>>
  /\ revDeps = NoCall
  /\ impacts = <<>>
  /\ allAffectedPkgs = {}
  /\ result = ErrResult("none")
  /\ report = <<>>
  /\ history = <<>>
  /\ comments = <<>>

\* The same, on a checkout that can be read throughout.
Start(tree, config, files) == StartOn(tree, config, files, {})

\* The pattern lists of the configurations the filters are checked on.
HighLevelLists == {<<>>, <<"**">>, <<"x/*/c", "**/e">>}

IgnoreLists == {<<>>, <<"*_test.go">>, <<"**/d", "x/*">>}

CriticalLists == {<<>>, <<"**/c">>}

Configs ==
  {Cfg(high, ignore, critical) :
     high \in HighLevelLists, ignore \in IgnoreLists, critical \in CriticalLists}

\* The changed-file lists the derivation of the changed packages is checked on.
ChangedLists ==
  {<<>>,
   <<"d/a.go">>,
   <<"c/a_test.go">>,
   <<"readme.md", "e/a_test.go">>,
   <<"e/a.go", "d/a.go", "d/a_test.go">>,
   <<"c/a.go", "c/b.go", "main.go">>,
   <<"zz/a.go", "d/a.go">>,
   <<"d/a.go", "e/a.go", "c/b.go">>}

\* The checkouts the filters are checked on.
FilterTrees ==
  {MkTree(root, c, d, e) :
     root \in {Present({OtherFile("go.mod")}),
               Present({OtherFile("go.mod"), GoFile("main.go", "main", <<Imp("d")>>)})},
     c \in {Present({GoFile("a.go", "c", <<"fmt", Imp("d")>>)}),
            Present({GoFile("a.go", "c", <<Imp("e")>>), GoFile("b.go", "c", <<Imp("d")>>)}),
            Present({GoFile("a.go", "c", <<>>), GoFile("a_test.go", "c", <<Imp("d")>>)}),
            Present({GoFile("a.go", "c", <<Imp("c"), Imp("d")>>)})},
     d \in {Present({GoFile("a.go", "d", <<>>)}),
            Present({GoFile("a.go", "d", <<Imp("e")>>)}),
            Present({GoFile("a.go", "d", <<rootPkgPath>>)})},
     e \in {Absent,
            Present({OtherFile("readme.md")}),
            Present({BadFile("a.go")}),
            Present({GoFile("a.go", "e", <<Imp("c")>>)})}}

\* The inputs every checkout of Trees is analyzed on.
GraphInputs ==
  {[cfg |-> DefaultConfig(<<"**/c">>), files |-> <<"e/a.go", "d/a.go", "d/a_test.go">>],
   [cfg |-> Cfg(<<>>, <<"**/e">>, <<>>), files |-> <<"c/a.go", "main.go">>]}

\* Every checkout of Trees, on the inputs of GraphInputs.
Init ==
  \E tree \in Trees, in \in GraphInputs : Start(tree, in.cfg, in.files)

\* The checkouts of FilterTrees, on every configuration and changed-file list.
InitFilter ==
  \E tree \in FilterTrees, config \in Configs, files \in ChangedLists :
    Start(tree, config, files)

\* The number of runs on one checkout the model follows.
MaxRuns == 2

\* runAnalyze once more, on the same checkout and inputs: a new analyzer.
NewRun ==
  /\ pc = "reported"
  /\ Len(history) + 1 < MaxRuns
  /\ history' = Append(history, result)
  /\ pc' = "new"
  /\ Packages' = NoPackages
  /\ called' = {}
  /\ scanned' = <<>>
  /\ walkLeft' = <<>>
  /\ sortedChangedPkgs' = <<>>
  /\ todo' = <<>>
  /\ revDeps' = NoCall
  /\ impacts' = <<>>
  /\ allAffectedPkgs' = {}
  /\ result' = ErrResult("none")
  /\ report' = <<>>
  /\ UNCHANGED <<stack, ret, inputs, comments>>

\* One run of the analyzer.
Next ==
  \/ SetRootPackage
  \/ NotInitialized
  \/ BeginWalk
  \/ WalkSkip
  \/ WalkResolve
  \/ WalkResolved
  \/ Resolve
  \/ IdentifyChanged
  \/ ImpactOfNext
  \/ Summarize
  \/ Render

Spec == Init /\ [][Next]_vars

SpecFilter == InitFilter /\ [][Next]_vars

\* Resolve is sequential code: an activation that can take a step takes it.
FairSpec == Init /\ [][Next]_vars /\ WF_vars(Resolve)

\* Run after run on the same checkout and inputs.
NextRuns == Next \/ NewRun

SpecRuns == Init /\ [][NextRuns]_vars

(***************************************************************************)
(* runAnalyze: the report as a comment of the pull request                 *)
(***************************************************************************)

\* strings.Contains.
Contains(s, substr) ==
  \E k \in 0..(Len(s) - Len(substr)) : SubSeq(s, k + 1, k + Len(substr)) = substr

\* Line 197: the body of the comment, a sequence of lines, holds the marker.
HasMarker(body) == \E i \in 1..Len(body) : Contains(body[i], Marker)

\* The number of comments on a page of the listing (a small stand-in for the
\* page size of the GitHub API).
PerPage == 2

\* The number of comments of other authors the model follows.
MaxOthers == 3

\* Client.ListComments: Issues.ListComments with nil options returns the
\* first page of the comments.
ListComments ==
  SubSeq(comments, 1, IF Len(comments) < PerPage THEN Len(comments) ELSE PerPage)

\* Lines 192-201: the ID of the first listed comment with the marker, 0 when
\* there is none (a comment's ID is its position).
ExistingCommentID ==
  IF \E i \in 1..Len(ListComments) : HasMarker(ListComments[i])
  THEN CHOOSE i \in 1..Len(ListComments) :
         /\ HasMarker(ListComments[i])
         /\ \A j \in 1..(i - 1) : ~HasMarker(ListComments[j])
  ELSE 0

\* Lines 187-217: update the existing comment or create a new one.
PostComment ==
  /\ pc = "reported"
  /\ comments' = IF ExistingCommentID # 0
                 THEN [comments EXCEPT ![ExistingCommentID] = report]
                 ELSE Append(comments, report)
  /\ pc' = "posted"
  /\ UNCHANGED <<Packages, walkLeft, stack, ret, inputs, analysis, result,
                 report, history>>
  /\ UNCHANGED <<called, scanned>>

\* Somebody else comments on the pull request.
OtherComment ==
  /\ pc \in {"new", "posted"}
  /\ Cardinality({i \in 1..Len(comments) : ~HasMarker(comments[i])}) < MaxOthers
  /\ comments' = Append(comments, <<"lgtm">>)
  /\ UNCHANGED <<Packages, pc, walkLeft, stack, ret, inputs, analysis, result,
                 report, history>>
  /\ UNCHANGED <<called, scanned>>

\* The next push: runAnalyze once more on the pull request.
RunAgain ==
  /\ pc = "posted"
  /\ Len(history) + 1 < MaxRuns
  /\ history' = Append(history, result)
  /\ pc' = "new"
  /\ Packages' = NoPackages
  /\ called' = {}
  /\ scanned' = <<>>
  /\ walkLeft' = <<>>
  /\ sortedChangedPkgs' = <<>>
  /\ todo' = <<>>
  /\ revDeps' = NoCall
  /\ impacts' = <<>>
  /\ allAffectedPkgs' = {}
  /\ result' = ErrResult("none")
  /\ report' = <<>>
  /\ UNCHANGED <<stack, ret, inputs, comments>>

\* The checkouts of the pull request.
PullRequestTrees ==
  {MkTree(Present({OtherFile("go.mod")}), c, Present({GoFile("a.go", "d", <<Imp("e")>>)}), e) :
     c \in {Present({GoFile("a.go", "c", <<"fmt", Imp("d")>>)}),
            Present({GoFile("a.go", "c", <<>>), GoFile("a_test.go", "c", <<Imp("d")>>)})},
     e \in {Absent,
            Present({OtherFile("readme.md")}),
            Present({BadFile("a.go")}),
            Present({GoFile("a.go", "e", <<Imp("c")>>)})}}

InitPR ==
  \E tree \in PullRequestTrees :
    StartOn(tree, DefaultConfig(<<"**/c">>), <<"d/a.go">>, {})

\* Runs of runAnalyze on one pull request, with other comments in between.
NextPR == Next \/ PostComment \/ OtherComment \/ RunAgain

SpecPR == InitPR /\ [][NextPR]_vars

\* The sets of unreadable directories the walk is checked on.
UnreadableSets == {{}, {repoPath}, {Join(repoPath, "d")}, {Join(repoPath, "e")}}

\* The checkouts of FilterTrees with some directory unreadable.
InitIO ==
  \E tree \in FilterTrees, bad \in UnreadableSets :
    StartOn(tree, DefaultConfig(<<"**/c">>), <<"d/a.go", "e/a.go", "c/b.go">>, bad)

\* One run of the analyzer on a checkout that may not be readable.
NextIO == Next \/ WalkFail

SpecIO == InitIO /\ [][NextIO]_vars

(***************************************************************************)
(* Properties                                                              *)
(***************************************************************************)

\* AnalyzeChangedPackages has returned a result.
Returned == pc \in {"done", "reported"}

\* The walk is over: the graph is complete.
WalkDone == pc \in {"impacts", "done", "reported"}

\* C1.  Determinism: every run on a fresh analyzer, for the same checkout,
\* configuration and changed-file list, returns the same AnalysisResult as
\* the runs before it, whatever orders the ranges over the maps took.
C1_Determinism ==
  Returned => \A i \in 1..Len(history) : history[i] = result

\* C2.  Resolve is idempotent: a call of Resolve for a package path it has
\* been called on before returns nil at once and leaves every node of the
\* graph as it was.
C2_ResolveIdempotent ==
  [][(Entering /\ Top.pkgName \in called)
       => (stack' = Pop /\ ret' = "nil" /\ Packages' = Packages)]_vars

\* A call for a package that is being resolved further down the stack (an
\* import cycle) has returned nil, and that package has kept its files.
C2_Witness ==
  /\ InResolve
  /\ Top.at = "call"
  /\ ret = "nil"
  /\ \E i \in 1..Len(stack) :
       /\ stack[i].pkgName = Top.importPath
       /\ stack[i].at # "enter"
       /\ Packages[Top.importPath].Files # <<>>

\* The package's directory exists and ParseDir reads a package from it.
ScansOK(pkgName) ==
  /\ DirExists(PkgDir(pkgName))
  /\ ~ParseDirFails(PkgDir(pkgName))
  /\ ParsedPkgs(PkgDir(pkgName)) # {}

\* The non-test files of the package's directory.
SourceFiles(pkgName) ==
  IF DirExists(PkgDir(pkgName))
  THEN {f \in ParseDirFiles(PkgDir(pkgName)) : ~HasSuffix(f.name, "_test.go")}
  ELSE {}

\* Some non-test file of package a imports b.
ImportsInSource(a, b) == \E f \in SourceFiles(a) : b \in Range(f.imports)

\* Some activation of Resolve is scanning the package.
Active(pkgName) ==
  \E i \in 1..Len(stack) : stack[i].pkgName = pkgName /\ stack[i].at # "enter"

\* Resolve has been called on the package and the call that scanned it has
\* returned.
Resolved(pkgName) == pkgName \in DOMAIN Packages /\ ~Active(pkgName)

DependenciesOf(pkgName) == Range(Packages[pkgName].Dependencies)

\* Two packages that import each other and both scan have, once both are
\* resolved, each other among their dependencies.
CycleClosed ==
  \A a \in DOMAIN Packages, b \in DOMAIN Packages :
    (/\ a # b
     /\ ImportsInSource(a, b) /\ ImportsInSource(b, a)
     /\ ScansOK(a) /\ ScansOK(b)
     /\ Resolved(a) /\ Resolved(b))
    => (b \in DependenciesOf(a) /\ a \in DependenciesOf(b))

\* C3.  Cycle safety: every call of Resolve returns, import cycles included,
\* and the two packages of a cycle a->b->a that both scan end up with each
\* other as dependencies.
C3_CycleSafety ==
  /\ (stack # <<>>) ~> (stack = <<>>)
  /\ []CycleClosed

\* The walk has resolved a two-package cycle.
C3_Witness ==
  /\ pc = "walk"
  /\ stack = <<>>
  /\ \E a \in DOMAIN Packages, b \in DOMAIN Packages :
       /\ a # b
       /\ ImportsInSource(a, b) /\ ImportsInSource(b, a)
       /\ b \in DependenciesOf(a) /\ a \in DependenciesOf(b)

\* The packages that have pkgName among their dependencies, pkgName itself
\* left out.
Dependents(pkgName) ==
  {q \in DOMAIN Packages : q # pkgName /\ pkgName \in DependenciesOf(q)}

\* Some pattern of the list matches the package path.
MatchesSome(patterns, pkgPath) ==
  \E k \in 1..Len(patterns) : Match(patterns[k], pkgPath)

\* C4.  Filtering correctness: in every AnalysisResult no affected package
\* of any impact matches an ignore pattern; when the list of high-level
\* target patterns is not empty every affected package matches one of them;
\* when it is empty every dependent that no ignore pattern matches is an
\* affected package.
C4_FilteringCorrectness ==
  Returned =>
    \A i \in 1..Len(result.Impacts) :
      LET imp == result.Impacts[i]
          names == Names(imp.AffectedPackages)
      IN  /\ \A n \in names : ~MatchesSome(cfg.IgnorePatterns, n)
          /\ Len(cfg.HighLevelPackages) > 0
               => \A n \in names : MatchesSome(cfg.HighLevelPackages, n)
          /\ Len(cfg.HighLevelPackages) = 0
               => \A q \in Dependents(imp.ChangedPackage) :
                    ~MatchesSome(cfg.IgnorePatterns, q) => q \in names

\* A result in which, with target patterns set, one dependent of a changed
\* package is reported and another, that no ignore pattern matches, is not.
C4_Witness ==
  /\ Returned
  /\ Len(cfg.HighLevelPackages) > 0
  /\ \E i \in 1..Len(result.Impacts) :
       LET imp == result.Impacts[i]
       IN  /\ imp.AffectedPackages # <<>>
           /\ \E q \in Dependents(imp.ChangedPackage) :
                /\ q \notin Names(imp.AffectedPackages)
                /\ ~MatchesSome(cfg.IgnorePatterns, q)

\* The names of the affected packages of all impacts of the result.
AffectedNames ==
  UNION {Names(result.Impacts[i].AffectedPackages) : i \in 1..Len(result.Impacts)}

\* C5.  Direct/indirect partition: in every AnalysisResult the names of
\* indirectDependencies are exactly the affected package names of all impacts
\* that are not in directDependencies, so the two lists share no name.
C5_DirectIndirectPartition ==
  Returned =>
    /\ Range(result.IndirectDependencies)
         = AffectedNames \ Range(result.DirectDependencies)
    /\ Range(result.IndirectDependencies) \cap Range(result.DirectDependencies) = {}

\* A result with an indirectly affected package and with an affected package
\* that is a direct dependency.
C5_Witness ==
  /\ Returned
  /\ result.IndirectDependencies # <<>>
  /\ AffectedNames \cap Range(result.DirectDependencies) # {}

\* The package path of a directory of the checkout.
PkgPathOf(dir) ==
  IF dir = repoPath THEN rootPkgPath ELSE Imp(Rel(repoPath, dir))

\* The package paths of the directories of the checkout.
CheckoutPkgs == {PkgPathOf(dir) : dir \in DOMAIN fs}

\* A non-test source file of the package is in the changed-file list.
SourceFileChanged(pkgName) ==
  \E f \in SourceFiles(pkgName), i \in 1..Len(changedFiles) :
    changedFiles[i] = Rel(repoPath, Filename(pkgName, f))

\* c imports d in a non-test file, both scan, a source file of d has
\* changed and c passes both filters.
DirectDependentOfChanged(c, d) ==
  /\ ImportsInSource(c, d)
  /\ ScansOK(c) /\ ScansOK(d)
  /\ SourceFileChanged(d)
  /\ ~MatchesSome(cfg.IgnorePatterns, c)
  /\ Len(cfg.HighLevelPackages) > 0 => MatchesSome(cfg.HighLevelPackages, c)

\* Exactly one impact is for d, and it lists c, critical exactly when a
\* critical pattern matches c.
ReportedFor(c, d) ==
  LET hits == {i \in 1..Len(result.Impacts) : result.Impacts[i].ChangedPackage = d}
  IN  /\ Cardinality(hits) = 1
      /\ \A i \in hits :
           /\ c \in Names(result.Impacts[i].AffectedPackages)
           /\ \A a \in Range(result.Impacts[i].AffectedPackages) :
                a.Name = c => (a.IsCritical <=> MatchesSome(cfg.CriticalPackages, c))

\* C6, as stated.  Direct dependent is reported: whenever package c imports
\* package d in a non-test file, both scan, a non-test source file of d is in
\* the changed-file list and c passes the filters, exactly one impact has
\* changedPackage d, and it lists c with isCritical true exactly when c
\* matches a critical pattern.
C6_DirectDependentReported ==
  Returned =>
    \A c \in CheckoutPkgs, d \in CheckoutPkgs :
      DirectDependentOfChanged(c, d) => ReportedFor(c, d)

\* C6, amended.  The same, for a package c that is not d itself and is not
\* the package of the repository's root directory.
C6_DirectDependentReportedNotRoot ==
  Returned =>
    \A c \in CheckoutPkgs, d \in CheckoutPkgs :
      (c # d /\ c # rootPkgPath /\ DirectDependentOfChanged(c, d))
        => ReportedFor(c, d)

\* A result that reports a critical direct dependent of a changed package.
C6_Witness ==
  /\ Returned
  /\ \E c \in CheckoutPkgs, d \in CheckoutPkgs :
       /\ c # d /\ c # rootPkgPath
       /\ DirectDependentOfChanged(c, d)
       /\ MatchesSome(cfg.CriticalPackages, c)
       /\ ReportedFor(c, d)

\* C7.  FindReverseDependencies(p) returns exactly the registered packages
\* other than p that have p among their dependencies: each once, never p,
\* and none that reaches p only through another package.
C7_ReverseDependencies ==
  revDeps # NoCall =>
    /\ \A i, j \in 1..Len(revDeps.deps) : i # j => revDeps.deps[i] # revDeps.deps[j]
    /\ Range(revDeps.deps) = Dependents(revDeps.pkgName)
    /\ revDeps.pkgName \notin Range(revDeps.deps)

\* FindReverseDependencies has returned the dependents of a package that a
\* further package reaches only through one of them.
C7_Witness ==
  /\ revDeps # NoCall
  /\ revDeps.deps # <<>>
  /\ \E q \in DOMAIN Packages :
       /\ q # revDeps.pkgName
       /\ q \notin Range(revDeps.deps)
       /\ \E m \in DependenciesOf(q) : m \in Range(revDeps.deps)

\* The directories of the checkout that hold *.go files.
SourceDirs == {dir \in DOMAIN fs : \E f \in fs[dir] : HasSuffix(f.name, ".go")}

\* The imports of the package's non-test files that Resolve follows, when the
\* package scans.
InternalImports(pkgName) ==
  IF ScansOK(pkgName)
  THEN {i \in UNION {Range(f.imports) : f \in SourceFiles(pkgName)} :
          HasPrefix(i, rootPkgPath)}
  ELSE {}

\* The packages reached from the set along the imports Resolve follows.
RECURSIVE ImportClosure(_)
ImportClosure(S) ==
  LET T == S \cup UNION {InternalImports(p) : p \in S}
  IN  IF T = S THEN S ELSE ImportClosure(T)

\* The graph is the one of the checkout, whatever the changed files: its
\* nodes are the packages reached from the walked directories, a dependency
\* is an import the package's non-test files declare, and an import of a
\* package that scans, or that has no directory, is a dependency.
GraphOfCheckout ==
  /\ DOMAIN Packages
       = ImportClosure({PkgPathOf(dir) : dir \in SourceDirs \ {repoPath}})
  /\ \A q \in DOMAIN Packages :
       /\ DependenciesOf(q) \subseteq InternalImports(q)
       /\ \A i \in InternalImports(q) :
            (ScansOK(i) \/ ~DirExists(PkgDir(i))) => i \in DependenciesOf(q)

\* C8, as stated.  Complete graph: after the walk every directory of the
\* checkout that holds source files, the repository root included, has a
\* node, and the nodes and edges do not depend on the changed-file list.
C8_CompleteGraph ==
  WalkDone =>
    /\ \A dir \in SourceDirs : PkgPathOf(dir) \in DOMAIN Packages
    /\ GraphOfCheckout

\* C8, amended.  The same, for every directory but the repository root.
C8_CompleteGraphBelowRoot ==
  WalkDone =>
    /\ \A dir \in SourceDirs \ {repoPath} : PkgPathOf(dir) \in DOMAIN Packages
    /\ GraphOfCheckout

\* The walk is over on a checkout whose root directory holds source files
\* and has no node, while another directory has a node with a dependency.
C8_Witness ==
  /\ WalkDone
  /\ repoPath \in SourceDirs
  /\ rootPkgPath \notin DOMAIN Packages
  /\ \E dir \in SourceDirs \ {repoPath} :
       /\ PkgPathOf(dir) \in DOMAIN Packages
       /\ DependenciesOf(PkgPathOf(dir)) # {}

\* The last element of a path.
Base(path) == Split(path)[Len(Split(path))]

\* The changed files that are source files and no test files.
ChangedSources ==
  {changedFiles[i] : i \in {j \in 1..Len(changedFiles) :
     /\ MatchElem("*.go", Base(changedFiles[j]))
     /\ ~MatchElem("*_test.go", Base(changedFiles[j]))}}

\* The elements of the package path of the directory that holds the file.
ContainingPkg(file) ==
  Split(rootPkgPath) \o SubSeq(Split(file), 1, Len(Split(file)) - 1)

\* C9.  Changed-package derivation: the impacts have exactly one entry for
\* each distinct containing directory of the changed source files that are no
\* test files; with no such file the impacts are empty and the report says
\* that no changed packages were found.
C9_ChangedPackages ==
  Returned =>
    /\ {Split(result.Impacts[i].ChangedPackage) : i \in 1..Len(result.Impacts)}
         = {ContainingPkg(f) : f \in ChangedSources}
    /\ \A i, j \in 1..Len(result.Impacts) :
         i # j => result.Impacts[i].ChangedPackage # result.Impacts[j].ChangedPackage
    /\ ChangedSources = {}
         => /\ result.Impacts = <<>>
            /\ pc = "reported"
                 => report = <<Marker, "## Dependency Impact Analysis",
                               "No changed packages found.">>

\* A report on a changed-file list with two source files of one directory
\* and one of another: two impacts.
C9_Witness ==
  /\ pc = "reported"
  /\ Len(result.Impacts) = 2
  /\ \E f \in ChangedSources, g \in ChangedSources :
       f # g /\ ContainingPkg(f) = ContainingPkg(g)

\* The dependents of the package that pass both filters.
SurvivingDependents(pkgName) ==
  {q \in Dependents(pkgName) :
     ~ShouldIgnorePackage(cfg, q) /\ IsHighLevelPackage(cfg, q)}

\* The report has the section of a changed package without affected
\* packages.
ReportsNoImpact(pkgName) ==
  \E k \in 1..(Len(report) - 1) :
    /\ report[k] = "#### Changed Package: " \o pkgName
    /\ report[k + 1] = "This change does not affect any other packages."

\* C10.  Every changed package has its impact entry; a changed package with
\* no surviving dependents (none, all filtered out, or the package is no
\* node of the graph) has an empty affectedPackages list, and the report
\* says for it that the change does not affect any other packages.
C10_NoDependents ==
  Returned =>
    \A f \in ChangedSources :
      \E i \in 1..Len(result.Impacts) :
        LET imp == result.Impacts[i]
        IN  /\ Split(imp.ChangedPackage) = ContainingPkg(f)
            /\ SurvivingDependents(imp.ChangedPackage) = {}
                 => /\ imp.AffectedPackages = <<>>
                    /\ pc = "reported" => ReportsNoImpact(imp.ChangedPackage)

\* A report with a changed package that is no node of the graph and a
\* changed package whose dependents are all filtered out.
C10_Witness ==
  /\ pc = "reported"
  /\ \E i, j \in 1..Len(result.Impacts) :
       /\ result.Impacts[i].ChangedPackage \notin DOMAIN Packages
       /\ result.Impacts[i].AffectedPackages = <<>>
       /\ result.Impacts[j].ChangedPackage \in DOMAIN Packages
       /\ Dependents(result.Impacts[j].ChangedPackage) # {}
       /\ result.Impacts[j].AffectedPackages = <<>>
       /\ ReportsNoImpact(result.Impacts[i].ChangedPackage)
       /\ ReportsNoImpact(result.Impacts[j].ChangedPackage)

\* Resolve has returned an error for some package of the graph.
SomeResolveFailed ==
  \E p \in DOMAIN Packages : DirExists(PkgDir(p)) /\ ~ScansOK(p)

\* C11.  Fatal versus recoverable errors: AnalyzeChangedPackages returns an
\* error, and no result, exactly when the analyzer has no module root (not
\* initialized) or the walk meets a directory it cannot read; it returns a
\* result, without error, in every other case, also when Resolve has failed
\* for some package.
C11_FatalErrors ==
  /\ pc = "failed"
       => /\ result.err \in {"not initialized", "error walking repository"}
          /\ result = ErrResult(result.err)
          /\ result.err = "not initialized"
               => called = {} /\ walkLeft = <<>>
          /\ result.err = "error walking repository"
               => walkLeft # <<>> /\ Head(walkLeft) \in unreadable
  /\ Returned
       => /\ result.err = "nil"
          /\ unreadable \cap DOMAIN fs = {}

\* The walk has failed on an unreadable directory after Resolve had failed
\* for a package without ending the run.
C11_Witness ==
  /\ pc = "failed"
  /\ result.err = "error walking repository"
  /\ SomeResolveFailed

\* The package's directory exists and its scan fails: ParseDir fails or
\* reads no package.
ScanFails(pkgName) == DirExists(PkgDir(pkgName)) /\ ~ScansOK(pkgName)

\* The Resolve call that has just returned, to the walk or to an importer,
\* was for this package.
JustReturnedFor(pkgName) ==
  /\ pc = "walk"
  /\ ret # "none"
  /\ \/ stack = <<>> /\ walkLeft # <<>> /\ pkgName = PkgPathOf(Head(walkLeft))
     \/ stack # <<>> /\ Top.at = "call" /\ pkgName = Top.importPath

\* The package that scans imports one that scans and one whose scan fails.
ImportsGoodAndBad(pkgName) ==
  /\ ScansOK(pkgName)
  /\ \E g \in InternalImports(pkgName) : ScansOK(g)
  /\ \E b \in InternalImports(pkgName) : ScanFails(b)

LiesUnderRoot(path) ==
  path = rootPkgPath \/ HasPrefix(path, rootPkgPath \o "/")

\* C13.  Only internal edges are tracked: an import path that does not lie
\* under the module root, a path that merely has the root as a string prefix
\* included, is in no node's imports or dependencies and has no node.
C13_OnlyInternalEdges ==
  \A p \in DOMAIN Packages :
    /\ LiesUnderRoot(p)
    /\ \A i \in Range(Packages[p].Imports) : LiesUnderRoot(i)
    /\ \A i \in DependenciesOf(p) : LiesUnderRoot(i)

\* The comments of the pull request that hold the marker.
ReportComments == {i \in 1..Len(comments) : HasMarker(comments[i])}

\* C14.  Idempotent re-posting: over any sequence of runs on the same pull
\* request a run creates a comment only if no comment of the pull request
\* holds the marker and updates that comment otherwise, so the pull request
\* never has more than one report comment, however many other comments it
\* has.
C14_OneReportComment == Cardinality(ReportComments) <= 1

\* The imports of the node that Resolve takes for internal and whose
\* resolution did not fail: the package has a node and its scan did not fail.
ResolvedImports(pkgName) ==
  {i \in Range(Packages[pkgName].Imports) :
     IsInternalImport(i) /\ i \in DOMAIN Packages /\ ~ScanFails(i)}

\* C15.  Node invariant: after any sequence of Resolve calls there is one
\* node for each package name, the length of a node's dependencies is the
\* number of its imports that are internal and were resolved successfully,
\* and an import whose package scan failed is among the dependencies of no
\* importer.
C15_NodeInvariant ==
  stack = <<>> =>
    \A p \in DOMAIN Packages :
      /\ Packages[p].Name = p
      /\ Len(Packages[p].Dependencies) = Cardinality(ResolvedImports(p))
      /\ \A b \in DependenciesOf(p) : ~ScanFails(b)

\* The package path has no directory in the checkout.
MissingDirectory(pkgName) == ~DirExists(PkgDir(pkgName))

\* C16.  Missing directory: Resolve(p) for a path without a directory
\* returns no error and registers a node for p that has, and keeps, no
\* files, no imports and no dependencies; the import of p stands for an
\* absent package, and the run is not failed by it.
C16_MissingDirectory ==
  /\ (/\ pc = "walk" /\ stack # <<>> /\ Top.at = "call" /\ ret # "none"
      /\ MissingDirectory(Top.importPath))
       => ret = "nil" /\ Top.importPath \in DOMAIN Packages
  /\ \A p \in DOMAIN Packages :
       MissingDirectory(p)
         => /\ Packages[p].Files = <<>>
            /\ Packages[p].Imports = <<>>
            /\ Packages[p].Dependencies = <<>>
  /\ pc = "failed" => result.err = "not initialized"
  /\ Returned => result.err = "nil"

\* A result has been returned on a checkout in which a package that scans
\* imports a path without a directory; the path has its empty node.
C16_Witness ==
  /\ Returned
  /\ result.err = "nil"
  /\ \E q \in DOMAIN Packages, p \in DOMAIN Packages :
       /\ MissingDirectory(p)
       /\ ScansOK(q)
       /\ p \in Range(Packages[q].Imports)
       /\ Packages[p].Files = <<>>

\* C17.  No reprocessing: during one run each package directory is scanned
\* at most once, however many packages import it, however many cycles pass
\* through it, and whether or not its first scan failed.
C17_NoReprocessing ==
  \A i, j \in 1..Len(scanned) : i # j => scanned[i] # scanned[j]

\* Resolve is about to scan the directory of a package it has not met.
FirstScan ==
  /\ Entering
  /\ Top.pkgName \notin DOMAIN Packages
  /\ DirExists(PkgDir(Top.pkgName))

\* The call returns an error at once.
FailsAtOnce == stack' = Pop /\ ret' = "err"

\* The files of the package's directory that are no test files and parse.
ParseableSource(pkgName) == {f \in SourceFiles(pkgName) : ~f.bad}

\* The *.go files of the package's directory, test files included, that
\* parse.
ParseableGoFiles(pkgName) == {f \in ParseDirFiles(PkgDir(pkgName)) : ~f.bad}

\* C18, as stated.  Scan failure after exclusions: resolving a directory
\* that holds no parseable source once test files are excluded (a directory
\* with only test files, for one) fails with an error and does not yield a
\* successfully resolved node.
C18_ScanFailsWithoutSource ==
  [][(FirstScan /\ ParseableSource(Top.pkgName) = {}) => FailsAtOnce]_vars

\* C18, amended.  Resolving a directory that holds no parseable Go file at
\* all, test files included, fails with an error; a directory whose Go files
\* all parse and are all test files is scanned and resolves without error.
C18_ScanFailsWithoutGoFiles ==
  [][FirstScan =>
       /\ ParseableGoFiles(Top.pkgName) = {} => FailsAtOnce
       /\ (/\ ParseDirFiles(PkgDir(Top.pkgName)) # {}
           /\ ~ParseDirFails(PkgDir(Top.pkgName))
           /\ SourceFiles(Top.pkgName) = {})
            => /\ stack' # Pop
               /\ Top.pkgName \in DOMAIN Packages'
               /\ ret' = ret]_vars

\* The call for a directory without any Go file has returned an error to
\* the importer, and a directory with only test files has its node.
C18_Witness ==
  /\ pc = "walk"
  /\ stack # <<>>
  /\ Top.at = "call"
  /\ ret = "err"
  /\ DirExists(PkgDir(Top.importPath))
  /\ ParseDirFiles(PkgDir(Top.importPath)) = {}
  /\ \E p \in DOMAIN Packages :
       /\ ScansOK(p)
       /\ SourceFiles(p) = {}
       /\ Resolved(p)

\* Some test file of package a imports b.
ImportsInTest(a, b) ==
  /\ DirExists(PkgDir(a))
  /\ \E f \in ParseDirFiles(PkgDir(a)) :
       HasSuffix(f.name, "_test.go") /\ b \in Range(f.imports)

\* C19.  Test files are excluded: no node's files hold a test file; every
\* import and every dependency of a node is imported by a file of the
\* package that is no test file, so an import of test files alone adds
\* nothing; and every affected package of an impact imports the changed
\* package in a file that is no test file.
C19_TestFilesExcluded ==
  /\ \A p \in DOMAIN Packages :
       /\ \A i \in 1..Len(Packages[p].Files) :
            ~HasSuffix(Packages[p].Files[i], "_test.go")
       /\ \A t \in Range(Packages[p].Imports) \cup DependenciesOf(p) :
            ImportsInSource(p, t)
  /\ Returned
       => \A i \in 1..Len(result.Impacts) :
            \A a \in Names(result.Impacts[i].AffectedPackages) :
              ImportsInSource(a, result.Impacts[i].ChangedPackage)

\* A result with an impact for a changed package that a resolved package
\* with source files imports in a test file only: that package is not among
\* the affected packages.
C19_Witness ==
  /\ Returned
  /\ \E i \in 1..Len(result.Impacts), p \in DOMAIN Packages :
       /\ ImportsInTest(p, result.Impacts[i].ChangedPackage)
       /\ ~ImportsInSource(p, result.Impacts[i].ChangedPackage)
       /\ Packages[p].Files # <<>>
       /\ result.Impacts[i].ChangedPackage \in DOMAIN Packages
       /\ p \notin Names(result.Impacts[i].AffectedPackages)

\* a comes before b in the lexicographic order of their characters.
Before(a, b) ==
  \E k \in 0..Len(a) :
    /\ k <= Len(b)
    /\ SubSeq(a, 1, k) = SubSeq(b, 1, k)
    /\ \/ k = Len(a) /\ k < Len(b)
       \/ k < Len(a) /\ k < Len(b) /\ Ord(Char(a, k + 1)) < Ord(Char(b, k + 1))

\* Each string of the sequence comes before the next one.
StrictlyAscending(s) == \A i \in 1..(Len(s) - 1) : Before(s[i], s[i + 1])

\* C20.  Sorted output: in every AnalysisResult the impacts are in strictly
\* ascending order of changedPackage, each impact's affectedPackages are in
\* strictly ascending order of name, and directDependencies and
\* indirectDependencies are strictly ascending: sorted, without duplicates.
C20_SortedOutput ==
  Returned =>
    /\ StrictlyAscending([i \in 1..Len(result.Impacts) |->
                            result.Impacts[i].ChangedPackage])
    /\ \A i \in 1..Len(result.Impacts) :
         StrictlyAscending([j \in 1..Len(result.Impacts[i].AffectedPackages) |->
                              result.Impacts[i].AffectedPackages[j].Name])
    /\ StrictlyAscending(result.DirectDependencies)
    /\ StrictlyAscending(result.IndirectDependencies)

\* A result with several impacts, an impact with several affected packages,
\* several direct dependencies and an indirect one.
C20_Witness ==
  /\ Returned
  /\ Len(result.Impacts) >= 2
  /\ \E i \in 1..Len(result.Impacts) : Len(result.Impacts[i].AffectedPackages) >= 2
  /\ Len(result.DirectDependencies) >= 2
  /\ Len(result.IndirectDependencies) >= 1

\* ---------------------------------------------------------------------------
\* C21. Node lifecycle, over every step of one analysis run: (1) no node is
\* ever removed from tree.Packages; (2) a node whose scanning Resolve call has
\* finished processing its imports keeps its name, files, imports and
\* dependencies unchanged in every later step; (3) a node enters the graph
\* only in the step in which the first Resolve call for its path is entered,
\* and it enters with that path as its name.
C21_NodeLifecycle ==
  [][ /\ \A p \in DOMAIN Packages :
           /\ p \in DOMAIN Packages'
           /\ Resolved(p) => Packages'[p] = Packages[p]
      /\ \A p \in (DOMAIN Packages') \ (DOMAIN Packages) :
           /\ Entering
           /\ Top.pkgName = p
           /\ p \notin called
           /\ Packages'[p].Name = p ]_vars

\* A finished node that has files, imports and dependencies of its own is
\* found already resolved by a later Resolve call, which has just recorded it
\* as a dependency of the package being scanned, and the walk is not over.
C21_Witness ==
  /\ pc = "walk"
  /\ InResolve
  /\ Top.at = "imports"
  /\ \E p \in DependenciesOf(Top.pkgName) :
       /\ p # Top.pkgName
       /\ Resolved(p)
       /\ ScansOK(p)
       /\ Packages[p].Files # <<>>
       /\ Packages[p].Imports # <<>>
       /\ Packages[p].Dependencies # <<>>
       /\ Len(scanned) >= 3

\* ---------------------------------------------------------------------------
\* C22. Uniform treatment of a failing import: once the walk is over, for every
\* package B whose scan fails, the packages that scan and import B from a
\* source file either all have B among their dependencies or none has.
C22_UniformFailingImport ==
  WalkDone =>
    \A b \in DOMAIN Packages :
      ScanFails(b) =>
        \A p \in DOMAIN Packages, q \in DOMAIN Packages :
          (/\ ScansOK(p) /\ ImportsInSource(p, b)
           /\ ScansOK(q) /\ ImportsInSource(q, b))
            => (b \in DependenciesOf(p) <=> b \in DependenciesOf(q))

=============================================================================
